---- MODULE Spec2Model ----
(***************************************************************************)
(* Model of src/app.py: the anomaly analyzer (analyze_city), the live      *)
(* temperature fetcher (fetch_temperature, main_async) and the Streamlit   *)
(* button handler that ties them together.                                 *)
(*                                                                         *)
(* Numbers.  Temperatures are integers.  A mean is kept as the exact       *)
(* fraction num/den (sum over count) and a standard deviation is kept by   *)
(* its square, the sample variance num/den; def = FALSE is pandas' NaN.    *)
(* A comparison with NaN is false, as in numpy.  Comparisons of fractions  *)
(* are cross-multiplied, so no rounding is modelled.                       *)
(***************************************************************************)
EXTENDS Integers, Sequences, FiniteSets, TLC

(* ---------------------------------------------------------------- bounds *)
MaxLen == 3        \* longest exhaustively enumerated city series
MaxTemp == 2       \* enumerated temperatures are 0..MaxTemp
LongExtra == 2     \* long series have window+1 .. window+LongExtra readings
MaxCalls == 2      \* analyze_city calls on the same object
AppLen == 2        \* readings of the selected city in an uploaded file
MaxCities == 2     \* cities in one main_async call

(* ------------------------------------------------------ program constants *)
window == 30       \* rolling(window=30, ...)
min_periods_mean == 1
min_periods_std == 2
Threshold == 2     \* ... > 2 * std

(* ------------------------------------------------------------- arithmetic *)
NaN == [def |-> FALSE, num |-> 0, den |-> 1]

Max(a, b) == IF a >= b THEN a ELSE b

RECURSIVE SumSeq(_)
SumSeq(s) == IF s = <<>> THEN 0 ELSE Head(s) + SumSeq(Tail(s))

SquareSeq(s) == [k \in 1..Len(s) |-> s[k] * s[k]]

\* Series.mean(): sum / count; NaN for an empty selection.
mean(xs) ==
    IF Len(xs) = 0 THEN NaN
    ELSE [def |-> TRUE, num |-> SumSeq(xs), den |-> Len(xs)]

\* Series.std(): sample standard deviation (ddof = 1), kept as the variance
\*   (n * sum(x^2) - sum(x)^2) / (n * (n - 1));  NaN for fewer than 2 values.
std(xs) ==
    IF Len(xs) < 2 THEN NaN
    ELSE [def |-> TRUE,
          num |-> Len(xs) * SumSeq(SquareSeq(xs)) - SumSeq(xs) * SumSeq(xs),
          den |-> Len(xs) * (Len(xs) - 1)]

\* A plausible slip: >= in place of >.
exceeds_ge(t, m, s) ==
    /\ m.def
    /\ s.def
    /\ (t * m.den - m.num) * (t * m.den - m.num) * s.den
         >= Threshold * Threshold * s.num * m.den * m.den

\* np.abs(t - m) > 2 * s, with s given by its square; False when m or s is NaN.
exceeds(t, m, s) ==
    /\ m.def
    /\ s.def
    /\ (t * m.den - m.num) * (t * m.den - m.num) * s.den
         > Threshold * Threshold * s.num * m.den * m.den

(* ---------------------------------------------------------------- rolling *)
\* The trailing window of at most `window` readings ending at position i.
WindowAt(xs, i) == SubSeq(xs, Max(1, i - window + 1), i)

\* A plausible slip: an expanding window, never dropping old readings.
rolling_mean_expanding(xs) ==
    [i \in 1..Len(xs) |-> mean(SubSeq(xs, 1, i))]

\* .rolling(window=30, min_periods=1).mean()
rolling_mean(xs) ==
    [i \in 1..Len(xs) |->
        IF Len(WindowAt(xs, i)) >= min_periods_mean THEN mean(WindowAt(xs, i))
        ELSE NaN]

\* .rolling(window=30, min_periods=2).std()
rolling_std(xs) ==
    [i \in 1..Len(xs) |->
        IF Len(WindowAt(xs, i)) >= min_periods_std THEN std(WindowAt(xs, i))
        ELSE NaN]

\* A plausible slip: forward fill, which leaves leading NaN in place.
ffill(col) ==
    [i \in 1..Len(col) |->
        IF \E j \in 1..i : col[j].def
        THEN col[CHOOSE j \in 1..i :
                    col[j].def /\ \A k \in (j + 1)..i : ~col[k].def]
        ELSE NaN]

\* .bfill(): every NaN takes the next defined value, if there is one.
bfill(col) ==
    [i \in 1..Len(col) |->
        IF \E j \in i..Len(col) : col[j].def
        THEN col[CHOOSE j \in i..Len(col) :
                    col[j].def /\ \A k \in i..(j - 1) : ~col[k].def]
        ELSE NaN]

(* --------------------------------------------------------------- seasonal *)
RECURSIVE SelectTemps(_, _)
\* rows[rows.season == s].temperature, in row order
SelectTemps(rows, s) ==
    IF rows = <<>> THEN <<>>
    ELSE IF Head(rows).season = s
         THEN <<Head(rows).temperature>> \o SelectTemps(Tail(rows), s)
         ELSE SelectTemps(Tail(rows), s)

Column(rows, name) == [i \in 1..Len(rows) |-> rows[i][name]]

\* A plausible slip: the statistics of the whole series for every season.
seasonal_stats_ungrouped(rows) ==
    [s \in {rows[i].season : i \in 1..Len(rows)} |->
        [seasonal_mean |-> mean(Column(rows, "temperature")),
         seasonal_std |-> std(Column(rows, "temperature"))]]

\* groupby('season').agg({'temperature': ['mean', 'std']}): one entry per
\* season that occurs, over all rows of that season.
seasonal_stats(rows) ==
    [s \in {rows[i].season : i \in 1..Len(rows)} |->
        [seasonal_mean |-> mean(SelectTemps(rows, s)),
         seasonal_std |-> std(SelectTemps(rows, s))]]

RECURSIVE FirstSeen(_)
\* The distinct seasons of rows in order of first appearance.
FirstSeen(rows) ==
    IF rows = <<>> THEN <<>>
    ELSE LET rest == FirstSeen(SubSeq(rows, 1, Len(rows) - 1))
             s == rows[Len(rows)].season
         IN IF \E k \in 1..Len(rest) : rest[k] = s THEN rest
            ELSE Append(rest, s)

RECURSIVE SelectRows(_, _)
SelectRows(rows, s) ==
    IF rows = <<>> THEN <<>>
    ELSE IF Head(rows).season = s
         THEN <<Head(rows)>> \o SelectRows(Tail(rows), s)
         ELSE SelectRows(Tail(rows), s)

RECURSIVE GroupedByKey(_, _)
GroupedByKey(rows, keys) ==
    IF keys = <<>> THEN <<>>
    ELSE SelectRows(rows, Head(keys)) \o GroupedByKey(rows, Tail(keys))

\* DataFrame.merge(stats, on='season'), an inner join.  Every left row has
\* its season in stats, so every row is kept once.  The row order of an
\* inner join depends on the pandas release: left order (pandas >= 2.2) or
\* grouped by key in order of first appearance (earlier releases).
merge(rows, stats, order) ==
    LET sorted == IF order = "left" THEN rows
                  ELSE GroupedByKey(rows, FirstSeen(rows))
    IN [i \in 1..Len(sorted) |->
          [sorted[i] EXCEPT
              !.seasonal_mean = stats[sorted[i].season].seasonal_mean,
              !.seasonal_std = stats[sorted[i].season].seasonal_std]]

(* ----------------------------------------------------------- analyze_city *)
\* A plausible slip: the caller's object is also reordered in place.
InPlace_sorted(frame) ==
    LET temps == Column(frame.rows, "temperature")
        rm == rolling_mean(temps)
        rs == bfill(rolling_std(temps))
        rows == [i \in 1..Len(frame.rows) |->
                   [frame.rows[i] EXCEPT !.rolling_mean = rm[i],
                                         !.rolling_std = rs[i]]]
    IN [columns |-> frame.columns \cup {"rolling_mean", "rolling_std"},
        rows |-> GroupedByKey(rows, FirstSeen(rows))]

\* Lines 39-40: the two column assignments act on the caller's object.
InPlace(frame) ==
    LET temps == Column(frame.rows, "temperature")
        rm == rolling_mean(temps)
        rs == bfill(rolling_std(temps))
    IN [columns |-> frame.columns \cup {"rolling_mean", "rolling_std"},
        rows |-> [i \in 1..Len(frame.rows) |->
                   [frame.rows[i] EXCEPT !.rolling_mean = rm[i],
                                         !.rolling_std = rs[i]]]]

\* Lines 41-46: the value returned, a new object.
analyze_city(frame, order) ==
    LET withRolling == InPlace(frame)
        stats == seasonal_stats(withRolling.rows)
        merged == merge(withRolling.rows, stats, order)
    IN [columns |-> withRolling.columns
                      \cup {"seasonal_mean", "seasonal_std",
                            "rolling_anomaly", "seasonal_anomaly"},
        rows |-> [i \in 1..Len(merged) |->
                   [merged[i] EXCEPT
                      !.rolling_anomaly =
                          exceeds(merged[i].temperature,
                                  merged[i].rolling_mean,
                                  merged[i].rolling_std),
                      !.seasonal_anomaly =
                          exceeds(merged[i].temperature,
                                  merged[i].seasonal_mean,
                                  merged[i].seasonal_std)]]]

(* ------------------------------------------------------------ input data *)
\* A reading as loaded from the file; the derived fields exist in the record
\* from the start and count as columns only once named in `columns`.
Reading(ts, t, s) ==
    [timestamp |-> ts, temperature |-> t, season |-> s,
     rolling_mean |-> NaN, rolling_std |-> NaN,
     seasonal_mean |-> NaN, seasonal_std |-> NaN,
     rolling_anomaly |-> FALSE, seasonal_anomaly |-> FALSE]

BaseColumns == {"timestamp", "temperature", "season"}

Frame(temps, seasons) ==
    [columns |-> BaseColumns,
     rows |-> [i \in 1..Len(temps) |-> Reading(i, temps[i], seasons[i])]]

SeqsUpTo(S, n) == UNION {[1..k -> S] : k \in 1..n}

InputSeasons == {"winter", "summer"}

\* Every short series over the small temperature range and two seasons.
ShortFrames ==
    {Frame([i \in 1..Len(rs) |-> rs[i][1]], [i \in 1..Len(rs) |-> rs[i][2]]) :
        rs \in SeqsUpTo((0..MaxTemp) \X InputSeasons, MaxLen)}

\* The one-season series with a single outlier.
ScenarioFrame ==
    Frame(<<10, 12, 11, 50, 10, 11>>, [i \in 1..6 |-> "winter"])

\* Series longer than the window: a flat series with one spike, the first
\* `split` readings in winter and the rest in summer.
LongFrames ==
    {Frame([i \in 1..n |-> IF i = p THEN 9 ELSE 1],
           [i \in 1..n |-> IF i <= split THEN "winter" ELSE "summer"]) :
        n \in (window + 1)..(window + LongExtra),
        p \in {1, 2, window, window + 1},
        split \in {1, window}}

InputFrames == ShortFrames \cup {ScenarioFrame} \cup LongFrames

(* ---------------------------------------------------------------- season *)
\* get_current_season(), for the month datetime.now() reports.
get_current_season(month) ==
    IF month \in {12, 1, 2} THEN "winter"
    ELSE IF month \in {3, 4, 5} THEN "spring"
    ELSE IF month \in {6, 7, 8} THEN "summer"
    ELSE "autumn"

(* --------------------------------------------------------------- fetching *)
None == [some |-> FALSE, v |-> 0]

Some(x) == [some |-> TRUE, v |-> x]

Cities == {"Moscow", "Cairo", "Berlin"}

NoCity == "<none>"

\* What the provider reports for a city; distinct per city.
LatOf(c) == IF c = "Moscow" THEN 55 ELSE IF c = "Cairo" THEN 30 ELSE 52

LonOf(c) == IF c = "Moscow" THEN 37 ELSE IF c = "Cairo" THEN 31 ELSE 13

LiveTemps == {0, 1, 5}

\* A JSON body: which of main, main.temp and coord it holds; temp is a number
\* or JSON null.
Json(hasMain, hasTemp, temp, hasCoord, c) ==
    [has_main |-> hasMain, has_temp |-> hasTemp, temp |-> temp,
     has_coord |-> hasCoord, lat |-> LatOf(c), lon |-> LonOf(c)]

\* What can come back for one request: a JSON object, a failed network call,
\* or a body response.json() cannot parse.
Events(c) ==
    {[kind |-> "json", json |-> Json(TRUE, TRUE, Some(t), TRUE, c)] :
        t \in LiveTemps}
    \cup {[kind |-> "json", json |-> Json(FALSE, FALSE, None, TRUE, c)],
          [kind |-> "json", json |-> Json(FALSE, FALSE, None, FALSE, c)],
          [kind |-> "json", json |-> Json(TRUE, FALSE, None, TRUE, c)],
          [kind |-> "json", json |-> Json(TRUE, TRUE, Some(1), FALSE, c)],
          [kind |-> "json", json |-> Json(TRUE, TRUE, None, TRUE, c)],
          [kind |-> "network_error", json |-> Json(FALSE, FALSE, None, FALSE, c)],
          [kind |-> "bad_json", json |-> Json(FALSE, FALSE, None, FALSE, c)]}

NoEvent ==
    [kind |-> "none",
     json |-> [has_main |-> FALSE, has_temp |-> FALSE, temp |-> None,
               has_coord |-> FALSE, lat |-> 0, lon |-> 0]]

Return(c, temp, lat, lon) ==
    [kind |-> "return", city |-> c, temp |-> temp, lat |-> lat, lon |-> lon,
     exc |-> ""]

Raise(c, exc) ==
    [kind |-> "raise", city |-> c, temp |-> None, lat |-> None, lon |-> None,
     exc |-> exc]

NoResult == [kind |-> "none", city |-> NoCity, temp |-> None, lat |-> None,
             lon |-> None, exc |-> ""]

\* A plausible slip: errors of one request are swallowed into the absent
\* result instead of being raised.
fetch_temperature_swallow(city, ev) ==
    IF ev.kind # "json" THEN Return(city, None, None, None)
    ELSE IF ev.json.has_main /\ ev.json.has_temp /\ ev.json.has_coord
         THEN Return(city, ev.json.temp, Some(ev.json.lat), Some(ev.json.lon))
         ELSE Return(city, None, None, None)

\* fetch_temperature: session.get or response.json() may raise; data['coord']
\* is subscripted without a membership test.
fetch_temperature(city, ev) ==
    IF ev.kind = "network_error" THEN Raise(city, "ClientError")
    ELSE IF ev.kind = "bad_json" THEN Raise(city, "ContentTypeError")
    ELSE IF ev.json.has_main /\ ev.json.has_temp
         THEN IF ev.json.has_coord
              THEN Return(city, ev.json.temp,
                          Some(ev.json.lat), Some(ev.json.lon))
              ELSE Raise(city, "KeyError")
         ELSE Return(city, None, None, None)

\* A plausible slip: waiting for the first completed task only.
gather_done_first(ts) == \E i \in DOMAIN ts : ts[i] = "returned"

\* asyncio.gather hands back results once every task has returned.
gather_done(ts) == \A i \in DOMAIN ts : ts[i] = "returned"

\* With return_exceptions left False the first exception is propagated.
gather_raises(ts) == \E i \in DOMAIN ts : ts[i] = "raised"

\* {result[0]: (result[1], result[2], result[3]) for result in results},
\* over the results gather has at hand.
result_mapping(rs) ==
    [c \in {rs[i].city : i \in {j \in DOMAIN rs : rs[j].kind = "return"}} |->
        LET i == CHOOSE j \in DOMAIN rs :
                     /\ rs[j].kind = "return" /\ rs[j].city = c
                     /\ \A k \in DOMAIN rs :
                           (rs[k].kind = "return" /\ rs[k].city = c) => k <= j
        IN [temp |-> rs[i].temp, lat |-> rs[i].lat, lon |-> rs[i].lon]]

(* ------------------------------------------------------------ live verdict *)
\* mean_temp - 2 * std_temp <= t <= mean_temp + 2 * std_temp; False when the
\* std is NaN.
within_two_std(t, m, s) ==
    /\ m.def
    /\ s.def
    /\ (t * m.den - m.num) * (t * m.den - m.num) * s.den
         <= Threshold * Threshold * s.num * m.den * m.den

RECURSIVE CityRows(_, _)
\* historical_data[historical_data['city'] == city]
CityRows(rows, city) ==
    IF rows = <<>> THEN <<>>
    ELSE IF Head(rows).city = city
         THEN <<Head(rows)>> \o CityRows(Tail(rows), city)
         ELSE CityRows(Tail(rows), city)

\* The slice handed to analyze_city, a copy.
CitySlice(rows, city) ==
    LET own == CityRows(rows, city)
    IN [columns |-> BaseColumns,
        rows |-> [i \in 1..Len(own) |->
                    Reading(own[i].timestamp, own[i].temperature,
                            own[i].season)]]

\* Lines 97-110: the message written for a live temperature t.
verdict(rows, city, season, t) ==
    LET season_data == SelectTemps(CityRows(rows, city), season)
    IN IF season_data # <<>>
       THEN IF within_two_std(t, mean(season_data), std(season_data))
            THEN "normal"
            ELSE "anomalous"
       ELSE "no_season_data"

\* A plausible slip: only the selected city is tested.
inputs_ok_city_only(key, city) == city # NoCity

\* if owm_api_key and selected_city
inputs_ok(key, city) == key # "" /\ city # NoCity

(* ------------------------------------------------------- uploaded datasets *)
HistoryRow(c, ts, t, s) ==
    [city |-> c, timestamp |-> ts, temperature |-> t, season |-> s]

SeqsFromZero(S, n) == UNION {[1..k -> S] : k \in 0..n}

\* Files with up to AppLen readings for Moscow, followed or not by two
\* readings for Cairo.
Datasets ==
    {[i \in 1..Len(rs) |-> HistoryRow("Moscow", i, rs[i][1], rs[i][2])] \o other :
        rs \in SeqsFromZero((0..MaxTemp) \X InputSeasons, AppLen),
        other \in {<<>>, <<HistoryRow("Cairo", 1, 20, "winter"),
                           HistoryRow("Cairo", 2, 30, "summer")>>}}

\* historical_data['city'].unique()
UniqueCities(rows) == {rows[i].city : i \in 1..Len(rows)}

\* Request lists handed to main_async: up to MaxCities distinct cities.
CityLists ==
    {cs \in SeqsFromZero(Cities, MaxCities) :
        \A i, j \in 1..Len(cs) : i # j => cs[i] # cs[j]}

(* ------------------------------------------------------------------ state *)
VARIABLES
    city_data,      \* the object handed to analyze_city
    analyzed,       \* the values analyze_city returned, in call order
    pandas_order,   \* row order of an inner merge in the installed pandas
    owm_api_key,    \* the text input
    historical_data,\* the uploaded file
    selected_city,  \* the selectbox value, NoCity when there is no option
    month,          \* datetime.now().month
    pc,             \* position of the button handler
    ui,             \* what the run has put on the page
    cities,         \* argument of main_async
    m_pc,           \* position of main_async
    tasks,          \* state of each fetch_temperature task
    received,       \* what each task got back
    results,        \* what each task returned or raised
    requests,       \* GET requests sent, per city
    completed,      \* task indices in the order the tasks finished
    mapping         \* the dict main_async returns

analysisVars == <<city_data, analyzed, pandas_order>>

appVars == <<owm_api_key, historical_data, selected_city, month, pc, ui>>

fetchVars ==
    <<cities, m_pc, tasks, received, results, requests, completed, mapping>>

vars == <<analysisVars, appVars, fetchVars>>

EmptyFrame == [columns |-> BaseColumns, rows |-> <<>>]

BlankPage ==
    [warnings |-> <<>>, charts |-> 0, writes |-> <<>>,
     map |-> [shown |-> FALSE, lat |-> 0, lon |-> 0],
     exception |-> "", analyze_calls |-> 0]

FetchIdle ==
    /\ cities = <<>>
    /\ m_pc = "off"
    /\ tasks = <<>>
    /\ received = <<>>
    /\ results = <<>>
    /\ requests = [c \in Cities |-> 0]
    /\ completed = <<>>
    /\ mapping = <<>>

AppIdle ==
    /\ owm_api_key = ""
    /\ historical_data = <<>>
    /\ selected_city = NoCity
    /\ month = 1
    /\ pc = "off"
    /\ ui = BlankPage

(* ------------------------------------------------------------- main_async *)
\* Line 34: one coroutine per city, none of them running yet.
CreateTasks ==
    /\ m_pc = "entered"
    /\ m_pc' = "created"
    /\ tasks' = [i \in 1..Len(cities) |-> "created"]
    /\ received' = [i \in 1..Len(cities) |-> NoEvent]
    /\ results' = [i \in 1..Len(cities) |-> NoResult]
    /\ UNCHANGED <<cities, requests, completed, mapping>>
    /\ UNCHANGED <<analysisVars, appVars>>

\* Line 35, up to the suspension: gather schedules every coroutine as a task
\* and main_async waits.
Gather ==
    /\ m_pc = "created"
    /\ m_pc' = "awaiting"
    /\ tasks' = [i \in DOMAIN tasks |-> "scheduled"]
    /\ UNCHANGED <<cities, received, results, requests, completed, mapping>>
    /\ UNCHANGED <<analysisVars, appVars>>

\* The event loop runs the first step of the scheduled tasks in order; each
\* enters session.get and suspends.
StartTask(i) ==
    /\ m_pc = "awaiting"
    /\ tasks[i] = "scheduled"
    /\ \A j \in 1..(i - 1) : tasks[j] # "scheduled"
    /\ tasks' = [tasks EXCEPT ![i] = "requested"]
    /\ requests' = [requests EXCEPT ![cities[i]] = @ + 1]
    /\ UNCHANGED <<cities, m_pc, received, results, completed, mapping>>
    /\ UNCHANGED <<analysisVars, appVars>>

\* A suspended task is resumed, in any order among the tasks, once the first
\* steps queued before it have run; fetch_temperature runs to its end.
Deliver(i, ev) ==
    /\ m_pc = "awaiting"
    /\ tasks[i] = "requested"
    /\ \A j \in DOMAIN tasks : tasks[j] # "scheduled"
    /\ received' = [received EXCEPT ![i] = ev]
    /\ results' = [results EXCEPT ![i] = fetch_temperature(cities[i], ev)]
    /\ tasks' = [tasks EXCEPT ![i] =
                    IF fetch_temperature(cities[i], ev).kind = "return"
                    THEN "returned" ELSE "raised"]
    /\ completed' = Append(completed, i)
    /\ UNCHANGED <<cities, m_pc, requests, mapping>>
    /\ UNCHANGED <<analysisVars, appVars>>

\* Lines 35-36: gather returns, the session closes, the dict is built.
GatherReturn ==
    /\ m_pc = "awaiting"
    /\ ~gather_raises(tasks)
    /\ gather_done(tasks)
    /\ m_pc' = "returned"
    /\ mapping' = result_mapping(results)
    /\ UNCHANGED <<cities, tasks, received, results, requests, completed>>
    /\ UNCHANGED <<analysisVars, appVars>>

\* Line 35: gather re-raises the first exception; main_async leaves through
\* the session's exit and the tasks still waiting are cancelled when the
\* loop of asyncio.run shuts down.
GatherRaise ==
    /\ m_pc = "awaiting"
    /\ gather_raises(tasks)
    /\ m_pc' = "raised"
    /\ tasks' = [i \in DOMAIN tasks |->
                    IF tasks[i] \in {"scheduled", "requested"}
                    THEN "cancelled" ELSE tasks[i]]
    /\ UNCHANGED <<cities, received, results, requests, completed, mapping>>
    /\ UNCHANGED <<analysisVars, appVars>>

FetchStep ==
    \/ CreateTasks
    \/ Gather
    \/ \E i \in DOMAIN tasks : StartTask(i)
    \/ \E i \in DOMAIN tasks : \E ev \in Events(cities[i]) : Deliver(i, ev)
    \/ GatherReturn
    \/ GatherRaise

(* --------------------------------------------------------- button handler *)
\* Lines 79-90 and 124-125: the press of the button up to asyncio.run.
Click ==
    /\ pc = "idle"
    /\ IF inputs_ok(owm_api_key, selected_city)
       THEN /\ analyzed' = <<analyze_city(CitySlice(historical_data,
                                                     selected_city),
                                           pandas_order)>>
            /\ city_data' = InPlace(CitySlice(historical_data, selected_city))
            /\ ui' = [ui EXCEPT !.analyze_calls = @ + 1, !.charts = @ + 2]
            /\ cities' = <<selected_city>>
            /\ m_pc' = "entered"
            /\ pc' = "fetching"
       ELSE /\ ui' = [ui EXCEPT !.warnings = Append(@, "missing_input")]
            /\ pc' = "done"
            /\ UNCHANGED <<analyzed, city_data, cities, m_pc>>
    /\ UNCHANGED <<pandas_order, owm_api_key, historical_data, selected_city,
                   month, tasks, received, results, requests, completed,
                   mapping>>

\* Lines 91-123: main_async returned.
ShowResult ==
    /\ pc = "fetching"
    /\ m_pc = "returned"
    /\ LET current == mapping[selected_city]
       IN IF current.temp.some
          THEN ui' = [ui EXCEPT
                        !.writes = @ \o <<"current_temperature",
                                          verdict(historical_data,
                                                  selected_city,
                                                  get_current_season(month),
                                                  current.temp.v)>>,
                        !.map = [shown |-> TRUE, lat |-> current.lat.v,
                                 lon |-> current.lon.v]]
          ELSE ui' = [ui EXCEPT !.warnings = Append(@, "no_temperature")]
    /\ pc' = "done"
    /\ UNCHANGED <<owm_api_key, historical_data, selected_city, month>>
    /\ UNCHANGED <<analysisVars, fetchVars>>

\* Line 90: the exception leaves asyncio.run and ends the script run.
FetchFailed ==
    /\ pc = "fetching"
    /\ m_pc = "raised"
    /\ ui' = [ui EXCEPT !.exception =
                 results[CHOOSE i \in DOMAIN results :
                            results[i].kind = "raise"].exc]
    /\ pc' = "crashed"
    /\ UNCHANGED <<owm_api_key, historical_data, selected_city, month>>
    /\ UNCHANGED <<analysisVars, fetchVars>>

(* --------------------------------------------------------- specifications *)
\* The page with a file uploaded and the inputs filled in or not.
Init ==
    /\ city_data = EmptyFrame
    /\ analyzed = <<>>
    /\ pandas_order \in {"left", "grouped"}
    /\ owm_api_key \in {"", "key"}
    /\ historical_data \in Datasets
    /\ selected_city \in IF historical_data = <<>> THEN {NoCity}
                         ELSE UniqueCities(historical_data)
    /\ month \in 1..12
    /\ pc = "idle"
    /\ ui = BlankPage
    /\ FetchIdle

Next == Click \/ FetchStep \/ ShowResult \/ FetchFailed

Spec == Init /\ [][Next]_vars

\* analyze_city alone, called repeatedly on one object.
InitAnalyze ==
    /\ city_data \in InputFrames
    /\ analyzed = <<>>
    /\ pandas_order \in {"left", "grouped"}
    /\ AppIdle
    /\ FetchIdle

\* One call analyzed_data = analyze_city(city_data) on the same object.
CallAnalyze ==
    /\ Len(analyzed) < MaxCalls
    /\ analyzed' = Append(analyzed, analyze_city(city_data, pandas_order))
    /\ city_data' = InPlace(city_data)
    /\ UNCHANGED <<pandas_order, appVars, fetchVars>>

NextAnalyze == CallAnalyze

SpecAnalyze == InitAnalyze /\ [][NextAnalyze]_vars

\* main_async alone, for any list of distinct cities.
InitFetch ==
    /\ city_data = EmptyFrame
    /\ analyzed = <<>>
    /\ pandas_order = "left"
    /\ AppIdle
    /\ cities \in CityLists
    /\ m_pc = "entered"
    /\ tasks = <<>>
    /\ received = <<>>
    /\ results = <<>>
    /\ requests = [c \in Cities |-> 0]
    /\ completed = <<>>
    /\ mapping = <<>>

NextFetch == FetchStep

SpecFetch == InitFetch /\ [][NextFetch]_vars

(* ----------------------------------------------- properties of the analyzer *)
RECURSIVE SumOver(_, _)
\* The sum of f[j] over the index set S.
SumOver(f, S) ==
    IF S = {} THEN 0
    ELSE LET j == CHOOSE x \in S : TRUE IN f[j] + SumOver(f, S \ {j})

\* The input temperatures by timestamp, as the caller's object holds them.
InputTemps == [j \in 1..Len(city_data.rows) |-> city_data.rows[j].temperature]

\* n^2 * (sum of squared deviations from the mean) of InputTemps over S.
ScaledSSD(S) ==
    LET n == Cardinality(S)
        total == SumOver(InputTemps, S)
    IN SumOver([j \in S |-> (n * InputTemps[j] - total)
                              * (n * InputTemps[j] - total)], S)

\* Fraction v is the arithmetic mean of InputTemps over S.
IsMeanOf(v, S) ==
    v.def /\ v.num * Cardinality(S) = SumOver(InputTemps, S) * v.den

\* Fraction v is the square of the sample standard deviation over S.
IsSampleStdOf(v, S) ==
    LET n == Cardinality(S)
    IN v.def /\ n >= 2 /\ v.num * n * n * (n - 1) = ScaledSSD(S) * v.den

SameValue(a, b) == a.def /\ b.def /\ a.num * b.den = b.num * a.den

AbsVal(x) == IF x < 0 THEN -x ELSE x

\* |t - m| > 2 * s for the stored fractions m (a mean) and s (a std, squared).
MoreThanTwoSigma(t, m, s) ==
    /\ m.def /\ s.def
    /\ AbsVal(t * m.den - m.num) * AbsVal(t * m.den - m.num) * s.den
         > 4 * s.num * m.den * m.den

Trailing(i) == {j \in 1..Len(city_data.rows) : j >= i - 29 /\ j <= i}

SeasonIdx(s) == {j \in 1..Len(city_data.rows) : city_data.rows[j].season = s}

ReturnedRows ==
    UNION {{analyzed[k].rows[i] : i \in 1..Len(analyzed[k].rows)} :
              k \in 1..Len(analyzed)}

IsScenario == Column(city_data.rows, "temperature") = <<10, 12, 11, 50, 10, 11>>

\* C1: on every returned row, rolling_anomaly is true iff
\* |temperature - rolling_mean| > 2 * rolling_std and seasonal_anomaly is true
\* iff |temperature - seasonal_mean| > 2 * seasonal_std, for the values stored
\* on that row; in the series 10,12,11,50,10,11 the row of 50 is flagged.
C1_FlagsMatchStoredStats ==
    \A r \in ReturnedRows :
        /\ r.rolling_anomaly
             <=> MoreThanTwoSigma(r.temperature, r.rolling_mean, r.rolling_std)
        /\ r.seasonal_anomaly
             <=> MoreThanTwoSigma(r.temperature, r.seasonal_mean, r.seasonal_std)
        /\ (IsScenario /\ r.temperature = 50) => r.seasonal_anomaly

C1_Witness ==
    /\ IsScenario
    /\ Len(analyzed) >= 1
    /\ \E r \in ReturnedRows : r.temperature = 50 /\ r.seasonal_anomaly
    /\ \E r \in ReturnedRows : r.temperature = 12 /\ ~r.seasonal_anomaly

\* C2: for a series of at least 2 readings, the rolling_mean attached to the
\* i-th input reading is the mean of the at most 30 readings ending at i.
C2_RollingMeanIsTrailingMean ==
    Len(city_data.rows) >= 2 =>
        \A r \in ReturnedRows : IsMeanOf(r.rolling_mean, Trailing(r.timestamp))

\* A reading past the window whose trailing mean differs from the mean of
\* everything before it.
C2_Witness ==
    /\ Len(analyzed) >= 1
    /\ \E r \in ReturnedRows :
          /\ r.timestamp > 30
          /\ IsMeanOf(r.rolling_mean, Trailing(r.timestamp))
          /\ ~IsMeanOf(r.rolling_mean, 1..r.timestamp)

\* C3: for a series of at least 2 readings every returned row has a defined
\* rolling_std: from the second reading on it is the sample standard
\* deviation of the trailing window, and the first reading carries the value
\* of the second.
C3_RollingStdDefined ==
    Len(city_data.rows) >= 2 =>
        \A r \in ReturnedRows :
            /\ r.rolling_std.def
            /\ r.timestamp >= 2
                 => IsSampleStdOf(r.rolling_std, Trailing(r.timestamp))
            /\ r.timestamp = 1 => IsSampleStdOf(r.rolling_std, Trailing(2))

C3_Witness ==
    /\ Len(analyzed) >= 1
    /\ \E r \in ReturnedRows :
          r.timestamp = 1 /\ r.rolling_std.def /\ r.rolling_std.num > 0

\* C4: rows of the same season carry the same seasonal_mean and seasonal_std,
\* the mean and the sample standard deviation (undefined for a single
\* reading) of the temperature over all rows of that season.
C4_SeasonalStatsPerSeason ==
    \A r \in ReturnedRows :
        /\ IsMeanOf(r.seasonal_mean, SeasonIdx(r.season))
        /\ IF Cardinality(SeasonIdx(r.season)) >= 2
           THEN IsSampleStdOf(r.seasonal_std, SeasonIdx(r.season))
           ELSE ~r.seasonal_std.def
        /\ \A q \in ReturnedRows :
              q.season = r.season =>
                  /\ q.seasonal_mean = r.seasonal_mean
                  /\ q.seasonal_std = r.seasonal_std

\* Two seasons with different statistics, one of them with several rows.
C4_Witness ==
    /\ Len(analyzed) >= 1
    /\ \E r, q \in ReturnedRows :
          /\ r.season # q.season
          /\ ~SameValue(r.seasonal_mean, q.seasonal_mean)
          /\ r.seasonal_std.def /\ r.seasonal_std.num > 0
          /\ r.timestamp > 30

\* C5: a second call on the same object returns what the first call
\* returned, although the first call added columns to that object.
C5_SecondCallSameOutput ==
    \A k \in 1..Len(analyzed) : analyzed[k] = analyzed[1]

C5_Witness ==
    /\ Len(analyzed) >= 2
    /\ "rolling_mean" \in city_data.columns
    /\ "rolling_std" \in city_data.columns
    /\ \E r \in ReturnedRows : r.rolling_anomaly
    /\ \E i \in 1..Len(city_data.rows) : city_data.rows[i].rolling_std.def

(* ------------------------------------------------ properties of the fetcher *)
\* The field main.temp is present in the body (its value may be null).
TempPresent(j) == j.has_main /\ j.has_temp

\* C6: for every JSON object, fetch_temperature returns (city, temperature,
\* lat, lon) when main.temp is present and (city, None, None, None) when it
\* is absent, with coordinates in the result exactly when main.temp is
\* present, and never raises for a missing optional field.
C6_JsonAlwaysYieldsResult ==
    \A i \in DOMAIN tasks :
        received[i].kind = "json" =>
            /\ results[i].kind = "return"
            /\ results[i].city = cities[i]
            /\ IF TempPresent(received[i].json)
               THEN /\ results[i].temp = received[i].json.temp
                    /\ results[i].lat = Some(LatOf(cities[i]))
                    /\ results[i].lon = Some(LonOf(cities[i]))
               ELSE /\ results[i].temp = None
                    /\ results[i].lat = None
                    /\ results[i].lon = None
            /\ results[i].lat.some <=> TempPresent(received[i].json)
            /\ results[i].lon.some <=> TempPresent(received[i].json)

\* The (temperature, lat, lon) a city's own response stands for.
OwnTriple(i) ==
    IF TempPresent(received[i].json)
    THEN [temp |-> received[i].json.temp, lat |-> Some(LatOf(cities[i])),
          lon |-> Some(LonOf(cities[i]))]
    ELSE [temp |-> None, lat |-> None, lon |-> None]

C8_OneFailureFailsTheBatch ==
    /\ \A c \in Cities : requests[c] <= 1
    /\ (\E i \in DOMAIN tasks :
            received[i].kind \in {"network_error", "bad_json"}) =>
          /\ m_pc \in {"awaiting", "raised"}
          /\ mapping = <<>>
    /\ m_pc = "raised" =>
          /\ mapping = <<>>
          /\ \A i \in DOMAIN tasks : tasks[i] \notin {"scheduled", "requested"}

\* One request failed after another city's request had returned a
\* temperature.
C8_Witness ==
    /\ m_pc = "raised"
    /\ mapping = <<>>
    /\ \E i, k \in DOMAIN tasks :
          /\ received[i].kind = "network_error"
          /\ results[k].kind = "return"
          /\ results[k].temp.some

(* ------------------------------------------------ properties of the handler *)
\* C9: with an empty API key or no selected city the press of the button
\* only shows one warning: no analysis, chart, request, verdict or map.
C9_MissingInputOnlyWarns ==
    (owm_api_key = "" \/ selected_city = NoCity) =>
        /\ pc \in {"idle", "done"}
        /\ ui.warnings = IF pc = "done" THEN <<"missing_input">> ELSE <<>>
        /\ ui.analyze_calls = 0
        /\ analyzed = <<>>
        /\ ui.charts = 0
        /\ ui.writes = <<>>
        /\ ~ui.map.shown
        /\ ui.exception = ""
        /\ m_pc = "off"
        /\ \A c \in Cities : requests[c] = 0

C9_Witness ==
    /\ pc = "done"
    /\ owm_api_key = ""
    /\ selected_city # NoCity
    /\ ui.warnings = <<"missing_input">>

SeasonTemps ==
    SelectTemps(CityRows(historical_data, selected_city),
                get_current_season(month))

\* C10: with a fetched temperature t and at least one reading of the city in
\* the current season, the verdict is 'anomalous' exactly when
\* |t - mean| > 2 * std for that season, and 'normal' otherwise, also when
\* the season has a single reading and the std is undefined.
C10_VerdictFollowsSeasonalRule ==
    (pc = "done" /\ Len(ui.writes) = 2 /\ SeasonTemps # <<>>) =>
        ui.writes[2] =
            IF MoreThanTwoSigma(mapping[selected_city].temp.v,
                                mean(SeasonTemps), std(SeasonTemps))
            THEN "anomalous"
            ELSE "normal"

\* With two or more readings in the season the verdict does follow the rule.
VerdictFollowsRuleWhenStdDefined ==
    (pc = "done" /\ Len(ui.writes) = 2 /\ Len(SeasonTemps) >= 2) =>
        ui.writes[2] =
            IF MoreThanTwoSigma(mapping[selected_city].temp.v,
                                mean(SeasonTemps), std(SeasonTemps))
            THEN "anomalous"
            ELSE "normal"

====
